---- MODULE Spec2Model ----
(***************************************************************************)
(* tag-bumper: interactive retargeting of Git tags (src/index.js).        *)
(*                                                                         *)
(* A tag name is a sequence of one-character strings, so that the two      *)
(* regular expressions of the tag classifier are evaluated character by    *)
(* character.  The repository is a pair of maps from tag names to commits  *)
(* (the local refs and the refs on origin).  main() is a sequential        *)
(* program; every awaited gateway call or prompt is one step of it.        *)
(***************************************************************************)
EXTENDS Integers, Sequences, FiniteSets, TLC

VARIABLES
    pc,             \* position of main()
    status,         \* "running", or the exit status 0 / 1 of the process
    local,          \* local tag refs: tag name -> commit or NoCommit
    remote,         \* tag refs on origin: tag name -> commit or NoCommit
    action,         \* result of the first select(): "update" / "bump"
    tags,           \* const tags = await getTags()
    selectedTag,    \* const selectedTag = await select(...)
    rootTag,        \* const rootTag = getRootTag(tags)
    commitHash,     \* latestCommitHash (update) / commitHash (bump)
    rootTagCommitHash,      \* index.js:181
    selectedTagCommitHash,  \* index.js:182
    engine,         \* retarget in progress: [fn, tag, oldCommitHash] or NoEngine
    changes,        \* const changes = []
    log,            \* gateway operations and prompts performed, in order
    summaries,      \* number of times the summary block printed
    remote0,        \* remote refs when the run started
    localFetched,   \* local refs as git fetch --tags left them
    input,          \* classifier harness: the tag list under test
    output,         \* classifier harness: the three classifier results
    first           \* engine harness: the call under test and what updateTag left

vars == <<pc, status, local, remote, action, tags, selectedTag, rootTag,
          commitHash, rootTagCommitHash, selectedTagCommitHash, engine,
          changes, log, summaries, remote0, localFetched, input, output, first>>

-----------------------------------------------------------------------------
(* Bounds *)

\* number of distinct commits in the repository
NumCommits == 2
\* longest tag list handed to the classifier functions on their own
MaxLen == 5

-----------------------------------------------------------------------------
(* Tag names *)

Digit == {"0", "1", "2", "3", "4", "5", "6", "7", "8", "9"}

v1 == <<"v", "1">>
v2 == <<"v", "2">>
v1_2 == <<"v", "1", ".", "2">>
v1_2_3 == <<"v", "1", ".", "2", ".", "3">>
v10_0 == <<"v", "1", "0", ".", "0">>
release_1 == <<"r", "e", "l", "e", "a", "s", "e", "-", "1">>
v_dot == <<"v", "1", ".">>
v_only == <<"v">>
latest == <<"l", "a", "t", "e", "s", "t">>

\* names a classifier input is drawn from
TagNames == {v1, v2, v1_2, v1_2_3, v10_0, release_1, v_dot, v_only, latest}
\* names the tags of a run are drawn from: a bare-major tag, a major.minor
\* tag and a tag that is no version
RunNames == {v1, v1_2, release_1}

CommitNames == <<"c1", "c2", "c3", "c4">>
Commits == {CommitNames[i] : i \in 1..NumCommits}
NoCommit == "none"
NoTag == <<>>

\* injective sequences over S of length at most n (a repository never lists a
\* tag name twice)
DistinctSeqs(S, n) ==
    UNION {{s \in [1..k -> S] : \A i, j \in 1..k : s[i] = s[j] => i = j} : k \in 0..n}

-----------------------------------------------------------------------------
(* Tag classifier *)

\* index of the first position >= i of tag that holds no digit
RECURSIVE SkipDigits(_, _)
SkipDigits(tag, i) ==
    IF i <= Len(tag) /\ tag[i] \in Digit THEN SkipDigits(tag, i + 1) ELSE i

\* mutant: /^v\d*/, the digits are optional
MatchesRootPattern_star(tag) ==
    /\ Len(tag) >= 1
    /\ tag[1] = "v"

\* /^v\d+/.test(tag)
MatchesRootPattern(tag) ==
    /\ Len(tag) >= 2
    /\ tag[1] = "v"
    /\ tag[2] \in Digit

\* /^v\d+\.\d+/.test(tag)
MatchesVersionPattern(tag) ==
    /\ MatchesRootPattern(tag)
    /\ LET j == SkipDigits(tag, 2)
       IN /\ j + 1 <= Len(tag)
          /\ tag[j] = "."
          /\ tag[j + 1] \in Digit

\* mutant: the version filter with the root pattern /^v\d+/
filterVersionTags_all(ts) == SelectSeq(ts, MatchesRootPattern)

\* tags.filter(tag => /^v\d+\.\d+/.test(tag))
filterVersionTags(ts) == SelectSeq(ts, MatchesVersionPattern)

\* mutant: the root tag is the first tag that is v<digits> without a .minor
getRootTag_bareMajor(ts) ==
    LET BareMajor(tag) == MatchesRootPattern(tag) /\ ~MatchesVersionPattern(tag)
        found == SelectSeq(ts, BareMajor)
    IN IF found = <<>> THEN NoTag ELSE Head(found)

\* tags.find(tag => /^v\d+/.test(tag)); NoTag stands for undefined
RECURSIVE getRootTag(_)
getRootTag(ts) ==
    IF ts = <<>> THEN NoTag
    ELSE IF MatchesRootPattern(Head(ts)) THEN Head(ts) ELSE getRootTag(Tail(ts))

\* mutant: the root tag is not filtered out
filterNonRootTags_keep(ts) == ts

\* const rootTag = getRootTag(tags); return rootTag ? tags.filter(tag => tag !== rootTag) : tags
filterNonRootTags(ts) ==
    LET root == getRootTag(ts)
        NotRoot(tag) == tag # root
    IN IF root # NoTag THEN SelectSeq(ts, NotRoot) ELSE ts

-----------------------------------------------------------------------------
(* Repository (the simple-git gateway) *)

Refs == [RunNames -> Commits \cup {NoCommit}]

\* git fetch --tags: every tag of origin that is missing locally is created
Fetched(loc, rem) ==
    [t \in RunNames |-> IF loc[t] = NoCommit THEN rem[t] ELSE loc[t]]

\* tags.all: the local tag names, in the order the repository lists them
Listings(loc) ==
    LET present == {t \in RunNames : loc[t] # NoCommit}
    IN {s \in DistinctSeqs(present, Cardinality(present)) : Len(s) = Cardinality(present)}

Range(s) == {s[i] : i \in 1..Len(s)}

NoOutput == [rootTag |-> NoTag, nonRootTags |-> <<>>, versionTags |-> <<>>]

\* the engine harness before a call is made
NoFirst == [done |-> FALSE, tag |-> NoTag, local0 |-> <<>>, local |-> <<>>, remote |-> <<>>,
            log |-> <<>>, changes |-> <<>>, status |-> "running", summaries |-> 0]

NoEngine == [fn |-> "none", tag |-> NoTag, oldCommitHash |-> NoCommit]

Op(name, tag, ok) == [op |-> name, tag |-> tag, ok |-> ok]

\* the answer to a confirm() prompt, as logged
Answer(yes) == IF yes THEN "confirm-yes" ELSE "confirm-no"

-----------------------------------------------------------------------------
(* Process exit and the summary *)

\* the refs origin started from and the refs the fetch left are kept for
\* reference; the two harnesses are idle during a run
Ghost == UNCHANGED <<remote0, localFetched, input, output, first>>

\* mutant: the summary of the changes made so far prints on an error exit too
Exit1_summarizes ==
    /\ pc' = "exit"
    /\ status' = 1
    /\ summaries' = IF Len(changes) > 0 THEN summaries + 1 ELSE summaries

\* process.exit(1)
Exit1 ==
    /\ pc' = "exit"
    /\ status' = 1
    /\ UNCHANGED summaries

\* index.js:259-265 and the normal end of main(): the summary prints when the
\* change list is not empty, and the process ends with status 0
Summarize(ch) ==
    /\ summaries' = IF Len(ch) > 0 THEN summaries + 1 ELSE summaries
    /\ pc' = "exit"
    /\ status' = 0

\* mutant: a failure during a retarget puts the tag back at its old commit
\* before the process exits
GatewayFails_rollsBack(name, tag) ==
    /\ log' = Append(log, Op(name, tag, FALSE))
    /\ Exit1
    /\ local' = IF engine.fn # "none" /\ engine.oldCommitHash # NoCommit
                THEN [local EXCEPT ![engine.tag] = engine.oldCommitHash]
                ELSE local
    /\ UNCHANGED <<remote, action, tags, selectedTag, rootTag, commitHash,
                   rootTagCommitHash, selectedTagCommitHash, engine, changes>>

\* a gateway call that throws inside one of the helpers: the helper logs and
\* calls process.exit(1)
GatewayFails(name, tag) ==
    /\ log' = Append(log, Op(name, tag, FALSE))
    /\ Exit1
    /\ UNCHANGED <<local, remote, action, tags, selectedTag, rootTag, commitHash,
                   rootTagCommitHash, selectedTagCommitHash, engine, changes>>

-----------------------------------------------------------------------------
(* main(), index.js:132-275 *)

\* index.js:135 with isGitRepo, index.js:10-18
IsGitRepo ==
    /\ Ghost
    /\ pc = "isGitRepo"
    /\ \/ /\ log' = Append(log, Op("status", NoTag, TRUE))
          /\ pc' = "selectAction"
          /\ UNCHANGED <<status, summaries>>
       \/ \* git.status() throws: isGitRepo returns false and main returns
          /\ log' = Append(log, Op("status", NoTag, FALSE))
          /\ pc' = "exit"
          /\ status' = 0
          /\ UNCHANGED summaries
    /\ UNCHANGED <<local, remote, action, tags, selectedTag, rootTag, commitHash,
                   rootTagCommitHash, selectedTagCommitHash, engine, changes>>

\* index.js:137-146
SelectAction ==
    /\ Ghost
    /\ pc = "selectAction"
    /\ \E a \in {"update", "bump"} : action' = a
    /\ pc' = "getTags"
    /\ log' = Append(log, Op("select", NoTag, TRUE))
    /\ UNCHANGED <<status, summaries, local, remote, tags, selectedTag, rootTag,
                   commitHash, rootTagCommitHash, selectedTagCommitHash, engine, changes>>

\* the candidates of the tag selection, index.js:150 and index.js:214
Candidates(act, ts) ==
    IF act = "update" THEN filterNonRootTags(ts) ELSE filterVersionTags(ts)

\* git fetch --tags does not move a local tag: a tag that is at another commit
\* on origin is rejected, and the fetch fails
Diverged(loc, rem) ==
    \E t \in RunNames : loc[t] # NoCommit /\ rem[t] # NoCommit /\ loc[t] # rem[t]

\* index.js:149-155 and index.js:213-219 with getTags, index.js:20-29: the two
\* awaited calls git.fetch(['--tags']) and git.tags() are one step each
GetTags ==
    /\ UNCHANGED <<remote0, input, output, first>>
    /\ \/ /\ pc = "getTags"
          /\ \/ \* git.fetch throws with nothing fetched
                /\ GatewayFails("fetch", NoTag)
                /\ UNCHANGED localFetched
             \/ \* git.fetch throws on the rejected tag, the missing tags created
                /\ Diverged(local, remote)
                /\ local' = Fetched(local, remote)
                /\ localFetched' = local'
                /\ log' = Append(log, Op("fetch", NoTag, FALSE))
                /\ Exit1
                /\ UNCHANGED <<remote, action, tags, selectedTag, rootTag, commitHash,
                               rootTagCommitHash, selectedTagCommitHash, engine, changes>>
             \/ /\ ~Diverged(local, remote)
                /\ local' = Fetched(local, remote)
                /\ localFetched' = local'
                /\ log' = Append(log, Op("fetch", NoTag, TRUE))
                /\ pc' = "listTags"
                /\ UNCHANGED <<status, summaries, remote, action, tags, selectedTag,
                               rootTag, commitHash, rootTagCommitHash,
                               selectedTagCommitHash, engine, changes>>
       \/ /\ pc = "listTags"
          /\ UNCHANGED localFetched
          /\ \/ \* git.tags throws
                GatewayFails("tags", NoTag)
             \/ /\ \E ts \in Listings(local) :
                    /\ tags' = ts
                    /\ log' = Append(log, Op("tags", NoTag, TRUE))
                    /\ IF Len(Candidates(action, ts)) = 0
                       THEN Exit1
                       ELSE /\ pc' = "selectTag"
                            /\ UNCHANGED <<status, summaries>>
                /\ UNCHANGED <<local, remote, action, selectedTag, rootTag, commitHash,
                               rootTagCommitHash, selectedTagCommitHash, engine, changes>>

\* index.js:157-168 and index.js:221-238
SelectTag ==
    /\ Ghost
    /\ pc = "selectTag"
    /\ \E t \in Range(Candidates(action, tags)) :
        /\ selectedTag' = t
        /\ log' = Append(log, Op("select", t, TRUE))
        /\ IF action = "update"
           THEN /\ pc' = "getLatestCommitHash"
                /\ UNCHANGED <<rootTag, status, summaries>>
           ELSE /\ rootTag' = getRootTag(tags)
                /\ IF rootTag' = NoTag
                   THEN Exit1
                   ELSE /\ pc' = "getCommitOfSelected"
                        /\ UNCHANGED <<status, summaries>>
    /\ UNCHANGED <<local, remote, action, tags, commitHash, rootTagCommitHash,
                   selectedTagCommitHash, engine, changes>>

\* index.js:170 with getLatestCommitHash, index.js:44-52
GetLatestCommitHash ==
    /\ Ghost
    /\ pc = "getLatestCommitHash"
    /\ \/ GatewayFails("rev-parse", <<"H", "E", "A", "D">>)
       \/ /\ \E c \in Commits : commitHash' = c
          /\ log' = Append(log, Op("rev-parse", <<"H", "E", "A", "D">>, TRUE))
          /\ pc' = "confirm"
          /\ UNCHANGED <<status, summaries, local, remote, action, tags, selectedTag,
                         rootTag, rootTagCommitHash, selectedTagCommitHash, engine, changes>>

\* index.js:240 with getCommitOfTag, index.js:54-62
GetCommitOfSelected ==
    /\ Ghost
    /\ pc = "getCommitOfSelected"
    /\ \/ GatewayFails("rev-parse", selectedTag)
       \/ /\ local[selectedTag] # NoCommit
          /\ commitHash' = local[selectedTag]
          /\ log' = Append(log, Op("rev-parse", selectedTag, TRUE))
          /\ pc' = "confirm"
          /\ UNCHANGED <<status, summaries, local, remote, action, tags, selectedTag,
                         rootTag, rootTagCommitHash, selectedTagCommitHash, engine, changes>>

\* the call updateTag(tag, commitHash) / updateRootTag(rootTag, commitHash)
Call(fn, tag) == [fn |-> fn, tag |-> tag, oldCommitHash |-> NoCommit]

\* mutant: the answer to the confirmation is not looked at
Confirm_ignoresAnswer ==
    /\ Ghost
    /\ pc = "confirm"
    /\ \E answer \in BOOLEAN :
        /\ log' = Append(log, Op(Answer(answer), selectedTag, TRUE))
        /\ IF FALSE
           THEN /\ Summarize(changes)
                /\ UNCHANGED <<rootTag, engine>>
           ELSE /\ UNCHANGED <<status, summaries>>
                /\ IF action = "update"
                   THEN /\ rootTag' = getRootTag(tags)
                        /\ IF rootTag' # NoTag
                           THEN /\ pc' = "getCommitOfRoot"
                                /\ UNCHANGED engine
                           ELSE /\ pc' = "resolve"
                                /\ engine' = Call("updateTag", selectedTag)
                   ELSE /\ pc' = "resolve"
                        /\ engine' = Call("updateRootTag", rootTag)
                        /\ UNCHANGED rootTag
    /\ UNCHANGED <<local, remote, action, tags, selectedTag, commitHash,
                   rootTagCommitHash, selectedTagCommitHash, changes>>

\* index.js:173-180, 205-211 (update) and index.js:243-253 (bump)
Confirm ==
    /\ Ghost
    /\ pc = "confirm"
    /\ \E answer \in BOOLEAN :
        /\ log' = Append(log, Op(Answer(answer), selectedTag, TRUE))
        /\ IF ~answer
           THEN /\ Summarize(changes)
                /\ UNCHANGED <<rootTag, engine>>
           ELSE /\ UNCHANGED <<status, summaries>>
                /\ IF action = "update"
                   THEN /\ rootTag' = getRootTag(tags)
                        /\ IF rootTag' # NoTag
                           THEN /\ pc' = "getCommitOfRoot"
                                /\ UNCHANGED engine
                           ELSE /\ pc' = "resolve"
                                /\ engine' = Call("updateTag", selectedTag)
                   ELSE /\ pc' = "resolve"
                        /\ engine' = Call("updateRootTag", rootTag)
                        /\ UNCHANGED rootTag
    /\ UNCHANGED <<local, remote, action, tags, selectedTag, commitHash,
                   rootTagCommitHash, selectedTagCommitHash, changes>>

\* index.js:181
GetCommitOfRoot ==
    /\ Ghost
    /\ pc = "getCommitOfRoot"
    /\ \/ GatewayFails("rev-parse", rootTag)
       \/ /\ local[rootTag] # NoCommit
          /\ rootTagCommitHash' = local[rootTag]
          /\ log' = Append(log, Op("rev-parse", rootTag, TRUE))
          /\ pc' = "getCommitOfSelectedTag"
          /\ UNCHANGED <<status, summaries, local, remote, action, tags, selectedTag,
                         rootTag, commitHash, selectedTagCommitHash, engine, changes>>

\* index.js:182, then the call of updateTag at index.js:185 or index.js:202
GetCommitOfSelectedTag ==
    /\ Ghost
    /\ pc = "getCommitOfSelectedTag"
    /\ \/ GatewayFails("rev-parse", selectedTag)
       \/ /\ local[selectedTag] # NoCommit
          /\ selectedTagCommitHash' = local[selectedTag]
          /\ log' = Append(log, Op("rev-parse", selectedTag, TRUE))
          /\ pc' = "resolve"
          /\ engine' = Call("updateTag", selectedTag)
          /\ UNCHANGED <<status, summaries, local, remote, action, tags, selectedTag,
                         rootTag, commitHash, rootTagCommitHash, changes>>

-----------------------------------------------------------------------------
(* Retarget engine, index.js:54-130 *)

\* mutant: the record holds the two commits the wrong way round
ChangeRecord_swapped(tag, old, new) == [tag |-> tag, oldCommitHash |-> new, newCommitHash |-> old]

\* the record updateTag and updateRootTag return, index.js:102 and index.js:124
ChangeRecord(tag, old, new) == [tag |-> tag, oldCommitHash |-> old, newCommitHash |-> new]

\* what main() and the repository keep while a retarget step runs
RetargetFrame ==
    UNCHANGED <<action, tags, selectedTag, rootTag, commitHash, rootTagCommitHash,
                selectedTagCommitHash>>

\* mutant: a tag already at the destination commit is not deleted and created
\* again, only pushed
getCommitOfTag_shortCircuit(tag) ==
    \/ GatewayFails("rev-parse", tag)
    \/ /\ local[tag] # NoCommit
       /\ engine' = [engine EXCEPT !.oldCommitHash = local[tag]]
       /\ log' = Append(log, Op("rev-parse", tag, TRUE))
       /\ pc' = IF local[tag] = commitHash THEN "push" ELSE "delete"
       /\ UNCHANGED <<status, summaries, local, remote, changes>>
       /\ RetargetFrame

\* getCommitOfTag(tag), index.js:54-62: git rev-parse tag
getCommitOfTag(tag) ==
    \/ GatewayFails("rev-parse", tag)
    \/ /\ local[tag] # NoCommit
       /\ engine' = [engine EXCEPT !.oldCommitHash = local[tag]]
       /\ log' = Append(log, Op("rev-parse", tag, TRUE))
       /\ pc' = "delete"
       /\ UNCHANGED <<status, summaries, local, remote, changes>>
       /\ RetargetFrame

\* mutant: deleting the tag also deletes it on origin
deleteLocalTag_alsoRemote(tag) ==
    \/ GatewayFails("delete", tag)
    \/ /\ local[tag] # NoCommit
       /\ local' = [local EXCEPT ![tag] = NoCommit]
       /\ remote' = [remote EXCEPT ![tag] = NoCommit]
       /\ log' = Append(log, Op("delete", tag, TRUE))
       /\ pc' = "create"
       /\ UNCHANGED <<status, summaries, engine, changes>>
       /\ RetargetFrame

\* deleteLocalTag(tag), index.js:68-76: git tag -d tag
deleteLocalTag(tag) ==
    \/ GatewayFails("delete", tag)
    \/ /\ local[tag] # NoCommit
       /\ local' = [local EXCEPT ![tag] = NoCommit]
       /\ log' = Append(log, Op("delete", tag, TRUE))
       /\ pc' = "create"
       /\ UNCHANGED <<status, summaries, remote, engine, changes>>
       /\ RetargetFrame

\* mutant: the tag is created again at the commit it had
createTag_atOld(tag, commit) ==
    \/ GatewayFails("create", tag)
    \/ /\ local[tag] = NoCommit
       /\ local' = [local EXCEPT ![tag] = engine.oldCommitHash]
       /\ log' = Append(log, Op("create", tag, TRUE))
       /\ pc' = "push"
       /\ UNCHANGED <<status, summaries, remote, engine, changes>>
       /\ RetargetFrame

\* git.tag([tag, commitHash]), index.js:98 and index.js:120; a throw is caught
\* at index.js:103 / index.js:125, which calls process.exit(1)
createTag(tag, commit) ==
    \/ GatewayFails("create", tag)
    \/ /\ local[tag] = NoCommit
       /\ local' = [local EXCEPT ![tag] = commit]
       /\ log' = Append(log, Op("create", tag, TRUE))
       /\ pc' = "push"
       /\ UNCHANGED <<status, summaries, remote, engine, changes>>
       /\ RetargetFrame

\* mutant: forcePushTag catches the rejected push and returns normally
forcePushTag_swallowsError(tag) ==
    /\ local[tag] # NoCommit
    /\ \/ /\ remote' = [remote EXCEPT ![tag] = local[tag]]
          /\ log' = Append(log, Op("push", tag, TRUE))
       \/ /\ remote' = remote
          /\ log' = Append(log, Op("push", tag, FALSE))

\* forcePushTag(tag) returning normally, index.js:78-81: git push origin
\* refs/tags/tag:refs/tags/tag --force went through, where the local tag exists
forcePushTag(tag) ==
    /\ local[tag] # NoCommit
    /\ remote' = [remote EXCEPT ![tag] = local[tag]]
    /\ log' = Append(log, Op("push", tag, TRUE))

\* mutant: the cascade is offered whenever a root tag exists
RootInSync_always == rootTag # NoTag

\* index.js:184: the root tag exists and resolved to the commit of the selected tag
RootInSync ==
    /\ rootTag # NoTag
    /\ rootTagCommitHash = selectedTagCommitHash

\* updateTag(tag, commitHash), index.js:88-108, and what its three callers do
\* with the record it returns, index.js:185-189, 202-203, 206-207
updateTag ==
    /\ Ghost
    /\ engine.fn = "updateTag"
    /\ \/ pc = "resolve" /\ getCommitOfTag(engine.tag)
       \/ pc = "delete" /\ deleteLocalTag(engine.tag)
       \/ pc = "create" /\ createTag(engine.tag, commitHash)
       \/ \* forcePushTag calls process.exit(1), index.js:82-85
          pc = "push" /\ GatewayFails("push", engine.tag)
       \/ /\ pc = "push"
          /\ forcePushTag(engine.tag)
          /\ changes' = Append(changes, ChangeRecord(engine.tag, engine.oldCommitHash, commitHash))
          /\ engine' = NoEngine
          /\ IF RootInSync
             THEN /\ pc' = "cascadePrompt"
                  /\ UNCHANGED <<status, summaries>>
             ELSE Summarize(changes')
          /\ UNCHANGED local
          /\ RetargetFrame

\* mutant: updateRootTag reads the old commit after the tag was created again
updateRootTag_lateOld ==
    /\ Ghost
    /\ engine.fn = "updateRootTag"
    /\ \/ pc = "resolve" /\ getCommitOfTag(engine.tag)
       \/ pc = "delete" /\ deleteLocalTag(engine.tag)
       \/ pc = "create" /\ createTag(engine.tag, commitHash)
       \/ pc = "push" /\ GatewayFails("push", engine.tag)
       \/ /\ pc = "push"
          /\ forcePushTag(engine.tag)
          /\ changes' = Append(changes, ChangeRecord(engine.tag, local[engine.tag], commitHash))
          /\ engine' = NoEngine
          /\ Summarize(changes')
          /\ UNCHANGED local
          /\ RetargetFrame

\* updateRootTag(rootTag, commitHash), index.js:110-130, and what its two callers
\* do with the record it returns, index.js:196-197, 249-250
updateRootTag ==
    /\ Ghost
    /\ engine.fn = "updateRootTag"
    /\ \/ pc = "resolve" /\ getCommitOfTag(engine.tag)
       \/ pc = "delete" /\ deleteLocalTag(engine.tag)
       \/ pc = "create" /\ createTag(engine.tag, commitHash)
       \/ \* forcePushTag calls process.exit(1), index.js:82-85
          pc = "push" /\ GatewayFails("push", engine.tag)
       \/ /\ pc = "push"
          /\ forcePushTag(engine.tag)
          /\ changes' = Append(changes, ChangeRecord(engine.tag, engine.oldCommitHash, commitHash))
          /\ engine' = NoEngine
          /\ Summarize(changes')
          /\ UNCHANGED local
          /\ RetargetFrame

\* mutant: the root tag is retargeted whatever the answer to the cascade prompt
CascadePrompt_ignoresAnswer ==
    /\ Ghost
    /\ pc = "cascadePrompt"
    /\ \E answer \in BOOLEAN :
        /\ log' = Append(log, Op(Answer(answer), rootTag, TRUE))
        /\ engine' = Call("updateRootTag", rootTag)
        /\ pc' = "resolve"
        /\ UNCHANGED <<status, summaries>>
    /\ UNCHANGED <<local, remote, changes>>
    /\ RetargetFrame

\* index.js:190-200
CascadePrompt ==
    /\ Ghost
    /\ pc = "cascadePrompt"
    /\ \E answer \in BOOLEAN :
        /\ log' = Append(log, Op(Answer(answer), rootTag, TRUE))
        /\ IF answer
           THEN /\ engine' = Call("updateRootTag", rootTag)
                /\ pc' = "resolve"
                /\ UNCHANGED <<status, summaries>>
           ELSE /\ Summarize(changes)
                /\ UNCHANGED engine
    /\ UNCHANGED <<local, remote, changes>>
    /\ RetargetFrame

PromptPcs == {"selectAction", "selectTag", "confirm", "cascadePrompt"}

\* mutant: abandoning the cascade prompt counts as the answer no
PromptCancel_continues ==
    /\ Ghost
    /\ pc \in PromptPcs
    /\ log' = Append(log, Op("cancel", NoTag, FALSE))
    /\ IF pc = "cascadePrompt" THEN Summarize(changes) ELSE Exit1
    /\ UNCHANGED <<local, remote, action, tags, selectedTag, rootTag, commitHash,
                   rootTagCommitHash, selectedTagCommitHash, engine, changes>>

\* a prompt rejects with ExitPromptError: index.js:266-268, 273
PromptCancel ==
    /\ Ghost
    /\ pc \in PromptPcs
    /\ log' = Append(log, Op("cancel", NoTag, FALSE))
    /\ Exit1
    /\ UNCHANGED <<local, remote, action, tags, selectedTag, rootTag, commitHash,
                   rootTagCommitHash, selectedTagCommitHash, engine, changes>>

-----------------------------------------------------------------------------
(* The run *)

\* a tag name of RunNames is at any commit or absent, locally and on origin
TagStates == (Commits \cup {NoCommit}) \X (Commits \cup {NoCommit})

Init ==
    /\ \E st \in [RunNames -> TagStates] :
        /\ local = [t \in RunNames |-> st[t][1]]
        /\ remote = [t \in RunNames |-> st[t][2]]
    /\ remote0 = remote
    /\ localFetched = local
    /\ pc = "isGitRepo"
    /\ status = "running"
    /\ action = "none"
    /\ tags = <<>>
    /\ selectedTag = NoTag
    /\ rootTag = NoTag
    /\ commitHash = NoCommit
    /\ rootTagCommitHash = NoCommit
    /\ selectedTagCommitHash = NoCommit
    /\ engine = NoEngine
    /\ changes = <<>>
    /\ log = <<>>
    /\ summaries = 0
    /\ input = <<>>
    /\ output = NoOutput
    /\ first = NoFirst

Next ==
    \/ IsGitRepo
    \/ SelectAction
    \/ GetTags
    \/ SelectTag
    \/ GetLatestCommitHash
    \/ GetCommitOfSelected
    \/ Confirm
    \/ GetCommitOfRoot
    \/ GetCommitOfSelectedTag
    \/ updateTag
    \/ updateRootTag
    \/ CascadePrompt
    \/ PromptCancel

Spec == Init /\ [][Next]_vars

-----------------------------------------------------------------------------
(* The classifier functions on their own *)

ClassifierInit ==
    /\ input \in DistinctSeqs(TagNames, MaxLen)
    /\ output = NoOutput
    /\ pc = "classify"
    /\ status = "running"
    /\ local = [t \in RunNames |-> NoCommit]
    /\ remote = [t \in RunNames |-> NoCommit]
    /\ remote0 = remote
    /\ localFetched = local
    /\ action = "none"
    /\ tags = <<>>
    /\ selectedTag = NoTag
    /\ rootTag = NoTag
    /\ commitHash = NoCommit
    /\ rootTagCommitHash = NoCommit
    /\ selectedTagCommitHash = NoCommit
    /\ engine = NoEngine
    /\ changes = <<>>
    /\ log = <<>>
    /\ summaries = 0
    /\ first = NoFirst

\* index.js:31-42 applied to the input
Classify ==
    /\ pc = "classify"
    /\ output' = [rootTag |-> getRootTag(input),
                  nonRootTags |-> filterNonRootTags(input),
                  versionTags |-> filterVersionTags(input)]
    /\ pc' = "classified"
    /\ UNCHANGED <<status, local, remote, action, tags, selectedTag, rootTag,
                   commitHash, rootTagCommitHash, selectedTagCommitHash, engine,
                   changes, log, summaries, remote0, localFetched, input, first>>

ClassifierNext == Classify

ClassifierSpec == ClassifierInit /\ [][ClassifierNext]_vars

-----------------------------------------------------------------------------
(* The two retarget engines on the same call *)

\* the tag of the call is anywhere: absent, on one side only, in sync or
\* diverged; another tag is absent or already at the destination commit
EngineRefs(tag, commit) ==
    {r \in [RunNames -> (Commits \cup {NoCommit}) \X (Commits \cup {NoCommit})] :
        \A t \in RunNames \ {tag} : r[t] \in {<<NoCommit, NoCommit>>, <<commit, commit>>}}

\* updateTag(tag, commit) is called, index.js:88
EngineInit ==
    /\ \E tag \in RunNames, commit \in Commits :
        /\ commitHash = commit
        /\ engine = Call("updateTag", tag)
        /\ \E r \in EngineRefs(tag, commit) :
            /\ local = [t \in RunNames |-> r[t][1]]
            /\ remote = [t \in RunNames |-> r[t][2]]
        /\ first = [NoFirst EXCEPT !.tag = tag, !.local0 = local]
    /\ remote0 = remote
    /\ localFetched = local
    /\ pc = "resolve"
    /\ status = "running"
    /\ action = "none"
    /\ tags = <<>>
    /\ selectedTag = NoTag
    /\ rootTag = NoTag
    /\ rootTagCommitHash = NoCommit
    /\ selectedTagCommitHash = NoCommit
    /\ changes = <<>>
    /\ log = <<>>
    /\ summaries = 0
    /\ input = <<>>
    /\ output = NoOutput

\* what updateTag left is kept, and updateRootTag(tag, commit) is called on
\* the repository as it was, index.js:110
SwitchEngine ==
    /\ pc = "exit"
    /\ ~first.done
    /\ first' = [first EXCEPT !.done = TRUE, !.local = local, !.remote = remote,
                              !.log = log, !.changes = changes, !.status = status,
                              !.summaries = summaries]
    /\ local' = first.local0
    /\ remote' = remote0
    /\ log' = <<>>
    /\ changes' = <<>>
    /\ status' = "running"
    /\ summaries' = 0
    /\ engine' = Call("updateRootTag", first.tag)
    /\ pc' = "resolve"
    /\ UNCHANGED <<action, tags, selectedTag, rootTag, commitHash, rootTagCommitHash,
                   selectedTagCommitHash, remote0, localFetched, input, output>>

EngineNext ==
    \/ updateTag
    \/ updateRootTag
    \/ SwitchEngine

EngineSpec == EngineInit /\ [][EngineNext]_vars

-----------------------------------------------------------------------------
(* Vocabulary of the properties *)

Exited == pc = "exit"

\* the log holds the entry e
Logged(e) == \E i \in 1..Len(log) : log[i] = e

\* the log holds a successful delete, create and push of tag, one after the other
RetargetedInFull(tag) ==
    \E a \in 1..(Len(log) - 2) :
        /\ log[a] = Op("delete", tag, TRUE)
        /\ log[a + 1] = Op("create", tag, TRUE)
        /\ log[a + 2] = Op("push", tag, TRUE)

\* some delete, create or push of tag was attempted
Touched(tag) ==
    \E i \in 1..Len(log) : log[i].tag = tag /\ log[i].op \in {"delete", "create", "push"}

\* the user said yes to the first confirmation of the update workflow
UpdateConfirmed == action = "update" /\ Logged(Op("confirm-yes", selectedTag, TRUE))

\* the user said yes to the confirmation of the bump workflow
BumpConfirmed == action = "bump" /\ Logged(Op("confirm-yes", selectedTag, TRUE))

\* the cascade prompt was shown, and the answer given to it
CascadeOffered ==
    \/ pc = "cascadePrompt"
    \/ /\ rootTag # NoTag
       /\ \/ Logged(Op("confirm-yes", rootTag, TRUE))
          \/ Logged(Op("confirm-no", rootTag, TRUE))
    \/ /\ Len(changes) > 0
       /\ Len(log) > 0
       /\ log[Len(log)].op = "cancel"
       /\ action = "update"
CascadeAccepted == rootTag # NoTag /\ Logged(Op("confirm-yes", rootTag, TRUE))

-----------------------------------------------------------------------------
(* Update workflow *)

\* C1: cascade. In the update workflow, when the root tag and the selected tag
\* resolved to the same commit before the update, the selected tag was
\* retargeted to HEAD, the user accepted the cascade prompt and the run ended
\* with status 0, the root tag is at HEAD locally and on origin, and the change
\* list holds exactly the record of the selected tag followed by the record of
\* the root tag, both with HEAD as their new commit.
C1_Cascade ==
    (/\ Exited
     /\ status = 0
     /\ action = "update"
     /\ rootTag # NoTag
     /\ rootTagCommitHash = selectedTagCommitHash
     /\ CascadeAccepted)
    => /\ local[rootTag] = commitHash
       /\ remote[rootTag] = commitHash
       /\ local[selectedTag] = commitHash
       /\ remote[selectedTag] = commitHash
       /\ changes = <<ChangeRecord(selectedTag, selectedTagCommitHash, commitHash),
                      ChangeRecord(rootTag, rootTagCommitHash, commitHash)>>
       /\ changes[1].newCommitHash = commitHash
       /\ changes[2].newCommitHash = commitHash

C1_Witness ==
    /\ Exited
    /\ status = 0
    /\ action = "update"
    /\ rootTag # NoTag
    /\ rootTagCommitHash = selectedTagCommitHash
    /\ CascadeAccepted
    /\ commitHash # rootTagCommitHash
    /\ Len(changes) = 2

\* C2: no cascade. In the update workflow, once the user confirmed, when there
\* is no root tag or the root tag resolved to another commit than the selected
\* tag, the cascade prompt is never shown, no step of a retarget touches the
\* root tag, the root tag stays at its commit locally and on origin, the change
\* list never holds more than the record of the selected tag, and a run that
\* ends with status 0 ends with exactly that one record.
C2_NoCascade ==
    (/\ UpdateConfirmed
     /\ \/ rootTag = NoTag
        \/ /\ selectedTagCommitHash # NoCommit
           /\ rootTagCommitHash # selectedTagCommitHash)
    => /\ ~CascadeOffered
       /\ Len(changes) <= 1
       /\ \A i \in 1..Len(changes) : changes[i].tag = selectedTag
       /\ (Exited /\ status = 0) =>
            /\ Len(changes) = 1
            /\ local[selectedTag] = commitHash
            /\ remote[selectedTag] = commitHash
       /\ rootTag # NoTag =>
            /\ ~Touched(rootTag)
            /\ local[rootTag] = rootTagCommitHash
            /\ remote[rootTag] = remote0[rootTag]

C2_Witness ==
    /\ UpdateConfirmed
    /\ rootTag # NoTag
    /\ selectedTagCommitHash # NoCommit
    /\ rootTagCommitHash # selectedTagCommitHash
    /\ Exited
    /\ status = 0
    /\ Len(changes) = 1

-----------------------------------------------------------------------------
(* Bump workflow *)

\* C3: bump. In the bump workflow, for a selected version tag at commit X and a
\* root tag at commit Y, when the user confirmed and the run ended with status
\* 0, the root tag is at X, the change list is exactly the one record
\* {root, Y, X}, and no retarget step touched the selected version tag.
C3_Bump ==
    (/\ Exited
     /\ status = 0
     /\ BumpConfirmed)
    => /\ local[rootTag] = commitHash
       /\ remote[rootTag] = commitHash
       /\ changes = <<ChangeRecord(rootTag, localFetched[rootTag], commitHash)>>
       /\ ~Touched(selectedTag)

-----------------------------------------------------------------------------
(* Change records and exit status *)

\* number of successful pushes in the first n log entries
RECURSIVE PushesDone(_)
PushesDone(n) ==
    IF n = 0 THEN 0
    ELSE PushesDone(n - 1) + (IF log[n].op = "push" /\ log[n].ok THEN 1 ELSE 0)

\* C4: a change record of a tag is in the change list only after the delete,
\* the create and the force-push of that tag succeeded, one record per
\* successful push; a failed create or push is the last thing the run does, it
\* ends the run with status 1 and no record of that tag is in the list.
C4_RecordOnlyAfterSuccess ==
    /\ \A i \in 1..Len(changes) : RetargetedInFull(changes[i].tag)
    /\ Len(changes) = PushesDone(Len(log))
    /\ \A i \in 1..Len(log) :
        (log[i].op \in {"create", "push"} /\ ~log[i].ok)
        => /\ i = Len(log)
           /\ Exited
           /\ status = 1
           /\ \A j \in 1..Len(changes) : changes[j].tag # log[i].tag

C4_Witness ==
    /\ Exited
    /\ status = 1
    /\ Len(changes) = 1
    /\ rootTag # NoTag
    /\ log[Len(log)] = Op("push", rootTag, FALSE)

NotARepository == Logged(Op("status", NoTag, FALSE))

EmptyTagSet ==
    /\ Logged(Op("tags", NoTag, TRUE))
    /\ Len(Candidates(action, tags)) = 0

GatewayFailure ==
    \E i \in 1..Len(log) :
        /\ ~log[i].ok
        /\ log[i].op \in {"fetch", "tags", "rev-parse", "delete", "create", "push"}

Cancelled == \E i \in 1..Len(log) : log[i].op = "cancel"

\* C5: exit status. A run that hit not-a-repository, an empty applicable tag
\* set, a gateway failure or the cancellation of a prompt ends with a non-zero
\* status; a run ends with status 0 only at the end of a workflow that met none
\* of these.
C5_ExitStatus ==
    Exited =>
        /\ (NotARepository \/ EmptyTagSet \/ GatewayFailure \/ Cancelled) => status = 1
        /\ status = 0 =>
            /\ action \in {"update", "bump"}
            /\ ~(NotARepository \/ EmptyTagSet \/ GatewayFailure \/ Cancelled)

-----------------------------------------------------------------------------
(* Tag classes, as the specification words them *)

\* the classifier functions were applied to the input
Classified == pc = "classified"

\* v<digits>.<digits> opens the name
HasMajorMinorPrefix(tag) ==
    \E j \in 3..(Len(tag) - 1) :
        /\ tag[1] = "v"
        /\ \A i \in 2..(j - 1) : tag[i] \in Digit
        /\ tag[j] = "."
        /\ tag[j + 1] \in Digit

\* v<digits> opens the name and no .minor follows
IsBareMajor(tag) ==
    /\ \E j \in 2..Len(tag) :
        /\ tag[1] = "v"
        /\ \A i \in 2..j : tag[i] \in Digit
    /\ ~HasMajorMinorPrefix(tag)

\* C6: for every tag list that holds a bare-major tag, T being the first of
\* them, whatever other tags are listed and wherever, getRootTag returns T and
\* filterNonRootTags returns the list without T, every other tag once and in
\* the original order.
C6_RootTagIsBareMajor ==
    Classified =>
        LET bare == SelectSeq(input, IsBareMajor)
            NotT(tag) == tag # bare[1]
        IN bare # <<>> =>
            /\ output.rootTag = bare[1]
            /\ output.nonRootTags = SelectSeq(input, NotT)

\* C7: in the update workflow the tag recognised as root is never among the
\* candidates of the selection, the selected tag is never the root tag, and no
\* tag has two change records.
C7_RootNeverCandidate ==
    action = "update" =>
        /\ \A i \in 1..Len(Candidates(action, tags)) :
            Candidates(action, tags)[i] # getRootTag(tags)
        /\ selectedTag # NoTag => selectedTag # getRootTag(tags)
        /\ rootTag # NoTag => selectedTag # rootTag
        /\ \A i, j \in 1..Len(changes) : changes[i].tag = changes[j].tag => i = j

C7_Witness ==
    /\ action = "update"
    /\ Exited
    /\ rootTag # NoTag
    /\ Len(changes) = 2
    /\ changes[1].tag = selectedTag
    /\ changes[2].tag = rootTag

\* C8: once a prompt was cancelled, the cancellation is the last thing the run
\* did, the run has ended with status 1 and no summary was printed; this holds
\* at the cascade prompt too, where the record of the selected tag is already
\* in the change list.
C8_CancelEndsRun ==
    Cancelled =>
        /\ log[Len(log)].op = "cancel"
        /\ \A i \in 1..(Len(log) - 1) : log[i].op # "cancel"
        /\ Exited
        /\ status = 1
        /\ summaries = 0

C8_Witness ==
    /\ Cancelled
    /\ Len(changes) = 1
    /\ local[selectedTag] = commitHash
    /\ remote[selectedTag] = commitHash

\* C9: no short-circuit. A retarget of a tag to the commit it is at reaches its
\* push step only through a successful delete and create, and its change
\* record, whose old and new commit are equal, stands for a full delete, create
\* and push that left the tag at that commit locally and on origin.
C9_NoShortCircuit ==
    /\ \A i \in 1..Len(changes) :
        changes[i].oldCommitHash = changes[i].newCommitHash
        => /\ RetargetedInFull(changes[i].tag)
           /\ local[changes[i].tag] = changes[i].newCommitHash
           /\ remote[changes[i].tag] = changes[i].newCommitHash
    /\ (pc = "push" /\ engine.oldCommitHash = commitHash)
        => /\ Len(log) >= 2
           /\ log[Len(log) - 1] = Op("delete", engine.tag, TRUE)
           /\ log[Len(log)] = Op("create", engine.tag, TRUE)
           /\ local[engine.tag] = commitHash

C9_Witness ==
    \E i \in 1..Len(changes) :
        /\ changes[i].oldCommitHash = changes[i].newCommitHash
        /\ RetargetedInFull(changes[i].tag)

\* C10: filterVersionTags returns the tags with a major.minor prefix, in the
\* original order: {v1, v1.2, v1.2.3, release-1, v2} gives {v1.2, v1.2.3}.
C10_VersionTags ==
    Classified =>
        /\ output.versionTags = SelectSeq(input, HasMajorMinorPrefix)
        /\ \A i \in 1..Len(output.versionTags) : ~IsBareMajor(output.versionTags[i])
        /\ input = <<v1, v1_2, v1_2_3, release_1, v2>>
            => output.versionTags = <<v1_2, v1_2_3>>

C10_Witness ==
    /\ Classified
    /\ input = <<v1, v1_2, v1_2_3, release_1, v2>>
    /\ output.versionTags = <<v1_2, v1_2_3>>

\* v<digits> opens the name
StartsWithVDigits(tag) ==
    \E j \in 2..Len(tag) :
        /\ SubSeq(tag, 1, 1) = <<"v">>
        /\ \A i \in 2..j : tag[i] \in Digit

\* C11: for every tag list in which no name opens with v<digits>, getRootTag
\* returns undefined and filterNonRootTags returns the list as it is.
C11_NoRootTag ==
    (/\ Classified
     /\ \A i \in 1..Len(input) : ~StartsWithVDigits(input[i]))
    => /\ output.rootTag = NoTag
       /\ output.nonRootTags = input

C11_Witness ==
    /\ Classified
    /\ input = <<release_1, v_only, latest>>
    /\ output.rootTag = NoTag
    /\ output.nonRootTags = input

-----------------------------------------------------------------------------
(* Steps of a retarget *)

RetargetOps == {"rev-parse", "delete", "create", "push"}

\* C12: within a retarget the steps come in the order resolve, delete, create,
\* push, each right after the success of the one before; a failed step is the
\* last thing the run does and ends it with status 1, and nothing is rolled
\* back: after a failed delete the tag is where it was, after a failed create
\* it is absent locally, after a failed push it is at the destination locally.
C12_StepOrder ==
    /\ \A i \in 1..Len(log) :
        /\ log[i].op = "delete" => (i > 1 /\ log[i - 1] = Op("rev-parse", log[i].tag, TRUE))
        /\ log[i].op = "create" => (i > 1 /\ log[i - 1] = Op("delete", log[i].tag, TRUE))
        /\ log[i].op = "push" => (i > 1 /\ log[i - 1] = Op("create", log[i].tag, TRUE))
        /\ (log[i].op \in RetargetOps /\ ~log[i].ok)
            => (i = Len(log) /\ Exited /\ status = 1)
    /\ (Len(log) > 0 /\ ~log[Len(log)].ok /\ engine.fn # "none") =>
        LET last == log[Len(log)]
        IN /\ last.tag = engine.tag
           /\ last.op = "delete" => local[engine.tag] = engine.oldCommitHash
           /\ last.op = "create" => local[engine.tag] = NoCommit
           /\ last.op = "push" => local[engine.tag] = commitHash

C12_Witness ==
    /\ Exited
    /\ engine.fn # "none"
    /\ engine.oldCommitHash # commitHash
    /\ log[Len(log)] = Op("create", engine.tag, FALSE)
    /\ local[engine.tag] = NoCommit

-----------------------------------------------------------------------------
(* Summary *)

\* C13: the summary prints at most once, only with a change list that is not
\* empty and only at the normal end of the workflow (status 0). A run that
\* ends with status 1 while the change list holds a record, as when the root
\* retarget of the cascade fails, prints no summary: the selected tag stays at
\* the destination locally and on origin and its record stays in the list.
C13_Summary ==
    /\ summaries \in {0, 1}
    /\ summaries = 1 <=> (Exited /\ status = 0 /\ Len(changes) > 0)
    /\ (Exited /\ status = 1 /\ Len(changes) > 0) =>
        /\ summaries = 0
        /\ changes = <<ChangeRecord(selectedTag, selectedTagCommitHash, commitHash)>>
        /\ local[selectedTag] = commitHash
        /\ remote[selectedTag] = commitHash

C13_Witness ==
    /\ Exited
    /\ status = 1
    /\ engine.fn = "updateRootTag"
    /\ engine.tag = rootTag
    /\ Len(changes) = 1
    /\ summaries = 0
    /\ log[Len(log)].op \in {"delete", "create", "push"}

-----------------------------------------------------------------------------
(* Frame *)

\* the tags a run may retarget: the selected tag, and the root tag once the
\* cascade was accepted, in the update workflow; the root tag in the bump
\* workflow
MayRetarget(tag) ==
    \/ action = "update" /\ tag = selectedTag
    \/ action = "update" /\ tag = rootTag /\ CascadeAccepted
    \/ action = "bump" /\ tag = rootTag

\* no step changes a ref of a tag outside MayRetarget, except that the fetch of
\* getTags creates, at the commit of origin, the local tag that was missing
OthersKept ==
    \A t \in RunNames :
        ~MayRetarget(t)' =>
            /\ remote'[t] = remote[t]
            /\ \/ local'[t] = local[t]
               \/ /\ pc = "getTags"
                  /\ local[t] = NoCommit
                  /\ local'[t] = remote[t]

\* every delete, create and push of the log names a tag of MayRetarget, and a
\* tag outside it is, where it exists, at the commit origin had for it at the
\* start
OnlyRetargetable ==
    /\ \A i \in 1..Len(log) :
        log[i].op \in {"delete", "create", "push"} => MayRetarget(log[i].tag)
    /\ \A t \in RunNames :
        ~MayRetarget(t) =>
            /\ remote[t] = remote0[t]
            /\ local[t] = localFetched[t]

\* C14: frame. Over a whole run the delete, create and push steps name only the
\* selected tag and, after an accepted cascade, the root tag (update) or the
\* root tag alone (bump); no step changes the refs of any other tag, which
\* stays at the commit it had at the start, also when that commit is the old
\* commit of the selected tag. (The fetch of getTags makes a tag that is only
\* on origin exist locally, at the same commit.)
C14_Frame == []OnlyRetargetable /\ [][OthersKept]_vars

C14_Witness ==
    /\ Exited
    /\ status = 0
    /\ action = "update"
    /\ CascadeAccepted
    /\ selectedTagCommitHash # NoCommit
    /\ commitHash # selectedTagCommitHash
    /\ \E t \in RunNames \ {selectedTag, rootTag} :
        /\ local[t] = selectedTagCommitHash
        /\ remote[t] = selectedTagCommitHash
        /\ remote0[t] = selectedTagCommitHash

-----------------------------------------------------------------------------
(* Consent *)

\* the log holds the entry e before position i
LoggedBefore(e, i) == \E j \in 1..(i - 1) : log[j] = e

\* C15: no tag mutation without consent. A delete, create or push happens only
\* after the yes to the confirmation of the workflow, and one of the root tag
\* in the update workflow only after the yes to the cascade prompt; after a no
\* to the first confirmation the run has ended with status 0, an empty change
\* list, no summary and no retarget step, every tag where it was when the
\* prompt was shown.
C15_Consent ==
    /\ \A i \in 1..Len(log) :
        log[i].op \in {"delete", "create", "push"} =>
            /\ LoggedBefore(Op("confirm-yes", selectedTag, TRUE), i)
            /\ (action = "update" /\ log[i].tag = rootTag)
                => LoggedBefore(Op("confirm-yes", rootTag, TRUE), i)
    /\ (selectedTag # NoTag /\ Logged(Op("confirm-no", selectedTag, TRUE))) =>
        /\ Exited
        /\ status = 0
        /\ changes = <<>>
        /\ summaries = 0
        /\ remote = remote0
        /\ local = localFetched
        /\ \A i \in 1..Len(log) : log[i].op \notin {"delete", "create", "push"}

C15_Witness ==
    /\ selectedTag # NoTag
    /\ Logged(Op("confirm-no", selectedTag, TRUE))
    /\ Exited
    /\ status = 0
    /\ local[selectedTag] # commitHash

-----------------------------------------------------------------------------
(* The refs on origin *)

\* every tag on origin is at the commit it started at or at the destination
\* commit, and a tag that was on origin is still there
RemoteSafe ==
    \A t \in RunNames :
        /\ remote[t] \in {remote0[t], commitHash}
        /\ remote0[t] # NoCommit => remote[t] # NoCommit
        /\ remote[t] # remote0[t] => Logged(Op("push", t, TRUE))

\* a step that changes the ref of a tag on origin is the push of the retarget
\* of that tag, and puts it at the destination commit
RemoteOnlyPushed ==
    \A t \in RunNames :
        remote'[t] # remote[t] =>
            /\ pc = "push"
            /\ engine.tag = t
            /\ remote'[t] = commitHash
            /\ local[t] = commitHash

\* C16: remote ref safety under partial failure. In every reachable state,
\* those after a failed delete, create or push included, the ref of each tag
\* on origin is the commit it held at the start of the run or the destination
\* commit; no tag is removed from origin, and the ref of a tag on origin
\* changes only in the push step of the retarget of that tag.
C16_RemoteSafe == []RemoteSafe /\ [][RemoteOnlyPushed]_vars

\* the selected tag was pushed, then the create of the root tag failed: the
\* root tag is absent locally and where it was on origin
C16_Witness ==
    /\ Exited /\ status = 1
    /\ selectedTag # NoTag /\ rootTag # NoTag
    /\ Logged(Op("push", selectedTag, TRUE))
    /\ remote[selectedTag] = commitHash
    /\ remote0[selectedTag] # commitHash
    /\ Logged(Op("create", rootTag, FALSE))
    /\ local[rootTag] = NoCommit
    /\ remote[rootTag] = remote0[rootTag]
    /\ remote[rootTag] # NoCommit

-----------------------------------------------------------------------------
(* The root tag of a bump *)

\* the bump workflow ended at "no root tag found", index.js:234-238
NoRootTagExit ==
    /\ action = "bump"
    /\ Exited
    /\ selectedTag # NoTag
    /\ rootTag = NoTag

\* C17: in the bump workflow a non-empty list of version tags means that the
\* lookup of the root tag returns a tag, so the run never ends at "no root tag
\* found": once a version tag is selected the root tag is set, and it is the
\* first listed tag that opens with v<digits>.
C17_BumpHasRoot ==
    /\ ~NoRootTagExit
    /\ (action = "bump" /\ pc # "getTags" /\ Len(filterVersionTags(tags)) > 0)
        => getRootTag(tags) # NoTag
    /\ (action = "bump" /\ selectedTag # NoTag) =>
        /\ rootTag # NoTag
        /\ rootTag = getRootTag(tags)
        /\ MatchesRootPattern(rootTag)

\* a bump that retargeted a major.minor tag as the root tag, the selected tag
\* itself, with a bare-major tag listed after it
C17_Witness ==
    /\ action = "bump"
    /\ Exited /\ status = 0
    /\ rootTag = selectedTag
    /\ MatchesVersionPattern(rootTag)
    /\ \E i \in 1..Len(tags) :
        MatchesRootPattern(tags[i]) /\ ~MatchesVersionPattern(tags[i])
    /\ Logged(Op("push", rootTag, TRUE))
    /\ Len(changes) = 1

-----------------------------------------------------------------------------
(* The change list *)

\* at most two records in update and one in bump, no tag twice, every record
\* with the destination commit as its new commit; the destination commit is
\* there before the confirmation is asked: HEAD in update, the commit of the
\* selected tag in bump
ChangesBounded ==
    /\ action = "update" => Len(changes) <= 2
    /\ action = "bump" => Len(changes) <= 1
    /\ action = "none" => changes = <<>>
    /\ \A i, j \in 1..Len(changes) : changes[i].tag = changes[j].tag => i = j
    /\ \A i \in 1..Len(changes) :
        /\ changes[i].newCommitHash = commitHash
        /\ changes[i].newCommitHash # NoCommit
    /\ commitHash = NoCommit =>
        /\ pc \notin {"confirm", "cascadePrompt", "resolve", "delete", "create", "push"}
        /\ ~Logged(Op("confirm-yes", selectedTag, TRUE))
        /\ ~Logged(Op("confirm-no", selectedTag, TRUE))
    /\ (action = "update" /\ commitHash # NoCommit)
        => Logged(Op("rev-parse", <<"H", "E", "A", "D">>, TRUE))
    /\ (action = "bump" /\ commitHash # NoCommit)
        => /\ commitHash = localFetched[selectedTag]
           /\ ~Logged(Op("rev-parse", <<"H", "E", "A", "D">>, TRUE))

\* once resolved the destination commit stays, and a record of the change list
\* stays as it was appended
DestinationKept ==
    /\ commitHash # NoCommit => commitHash' = commitHash
    /\ \A i \in 1..Len(changes) : i <= Len(changes') /\ changes'[i] = changes[i]

\* C18: in every reachable state the change list holds at most two records in
\* the update workflow and at most one in the bump workflow, no two records
\* name the same tag, and the new commit of every record is the one destination
\* commit resolved before the confirmation prompt (HEAD in update, the commit
\* of the selected version tag in bump), which no later step resolves again.
C18_Changes == []ChangesBounded /\ [][DestinationKept]_vars

\* an update with the cascade accepted: two records, both tags moved
C18_Witness ==
    /\ action = "update"
    /\ Exited /\ status = 0
    /\ Len(changes) = 2
    /\ changes[1].tag = selectedTag
    /\ changes[2].tag = rootTag
    /\ changes[1].oldCommitHash # commitHash
    /\ changes[2].newCommitHash = commitHash

-----------------------------------------------------------------------------
(* Equivalence of the two engines *)

\* the same gateway calls succeeded and failed in the two runs
SamePattern(a, b) ==
    /\ Len(a) = Len(b)
    /\ \A i \in 1..Len(a) : a[i].ok = b[i].ok

\* C19: updateTag and updateRootTag are equivalent retarget engines. Called
\* with the same tag and destination commit on the same repository, the two
\* make the same gateway calls with the same arguments in the same order, as
\* far as both get; and where the same calls fail they end with the same local
\* and remote refs, the same change record or the same exit status after the
\* same call.
C19_EnginesEquivalent ==
    first.done =>
        /\ \A i \in 1..Len(log) :
            i <= Len(first.log) =>
                /\ log[i].op = first.log[i].op
                /\ log[i].tag = first.log[i].tag
        /\ (Exited /\ SamePattern(first.log, log)) =>
            /\ log = first.log
            /\ local = first.local
            /\ remote = first.remote
            /\ changes = first.changes
            /\ status = first.status
            /\ summaries = first.summaries

\* both engines moved a tag that was elsewhere, and returned one record
C19_Witness ==
    /\ first.done
    /\ Exited /\ status = 0
    /\ SamePattern(first.log, log)
    /\ Len(log) = 4
    /\ Len(changes) = 1
    /\ changes = first.changes
    /\ changes[1].oldCommitHash # commitHash
    /\ remote[first.tag] = commitHash
    /\ remote0[first.tag] # commitHash

====
